---- MODULE Spec2Model ----
(***************************************************************************)
(* Model of the "label" badge firmware, cooperative version                *)
(* (src/cooperative/main.c): the millisecond clock driven by the T16       *)
(* interrupt, the charlieplexed LED driver setled(), the step waiter       *)
(* waituntil(), the IR sync pulse transmitter syncpulse(), the eight       *)
(* pattern functions and the loop() scheduler.                             *)
(*                                                                         *)
(* Every program variable is a function of the badge: a behaviour runs one *)
(* badge, or several badges whose IR transmitters drive each other's       *)
(* receiver pin.                                                           *)
(***************************************************************************)
EXTENDS Integers, Sequences, FiniteSets, TLC

\* ------------------------------------------------------------ bounds
\* Clock ticks a behaviour of the full-cycle specification may take.
MaxRunTicks == 36060
\* Clock ticks a behaviour of the free-timing waituntil() specification may take.
MaxPollTicks == 52
\* Clock ticks that may pass between two clock readings of the main context
\* in the free-timing specifications.
MaxStall == 2
\* Clock ticks followed per badge when several badges are in range
MaxAirTicks == 55
\* Ticks the clock of one badge may get ahead of the clock of another
MaxSkew == 1
\* setled() calls made before the one a claim is about
MaxLedCalls == 3
\* T16 requests followed when millis() is read byte by byte
MaxMillisTicks == 258
\* Clock ticks followed from a checkpoint inside the cycle (one step and the
\* start of the next)
MaxStepTicks == 28
\* Badges within IR range of each other in the several-badge specification.
NBadges == 2
\* Clock ticks a behaviour of the fair waituntil() specification may take
MaxFairTicks == 27
\* Clock ticks a behaviour of the fair full-cycle specification may take
MaxCycleTicks == 72030
\* Longest time before the counter wrap, in milliseconds, at which a badge
\* is taken up in the wrap specification
MaxWrapLead == 50

\* ------------------------------------------------- program constants
\* The budget every pattern passes to waituntil(), in milliseconds.
StepTime == 25
\* The duration loop() passes to syncpulse(), in milliseconds.
PulseTime == 25
\* Positions per side, the bound of every inner for loop.
NLeds == 20
\* setled(): an argument from this value on leaves its side unchanged
LedKeep == 21
\* TM2C value that starts the 38 kHz carrier on PA3 (0b00101000).
CarrierOn == 40
\* Width in bits of uint32_t, the type of elapsedmillis, previoustime and
\* currenttime: all arithmetic on them is modulo 2^32.
CounterBits == 32

\* ------------------------------------------------------------- uint32_t
\* A uint32_t of value v is held as its two 16-bit halves,
\* <<v \div 2^16, v % 2^16>>, the high half first: the integers of the model
\* checker end at 2^31 - 1.
Half == 2 ^ (CounterBits \div 2)

\* The uint32_t of value x, for 0 <= x < 2^31
U32(x) == <<x \div Half, x % Half>>

\* UINT32_MAX, 2^32 - 1
UMax == <<Half - 1, Half - 1>>

\* The int16_t t converted to uint32_t, as the usual arithmetic conversions
\* do with the argument "time" in lines 247, 263 and 298
FromInt16(t) == IF t >= 0 THEN <<0, t>> ELSE <<Half - 1, t + Half>>

\* uint32_t subtraction and addition
USub(a, b) ==
    LET borrow == IF a[2] < b[2] THEN 1 ELSE 0
    IN  <<(a[1] - b[1] - borrow + Half) % Half, (a[2] - b[2] + Half) % Half>>

UAdd(a, b) ==
    LET lo == a[2] + b[2]
    IN  <<(a[1] + b[1] + lo \div Half) % Half, lo % Half>>

\* a < b and a <= b on uint32_t
ULess(a, b) == a[1] < b[1] \/ (a[1] = b[1] /\ a[2] < b[2])

ULeq(a, b) == ~ULess(b, a)

\* ------------------------------------------------------ 8-bit registers
RECURSIVE BitAnd(_, _)
BitAnd(a, b) ==
    IF a = 0 \/ b = 0 THEN 0
    ELSE (a % 2) * (b % 2) + 2 * BitAnd(a \div 2, b \div 2)

RECURSIVE BitOr(_, _)
BitOr(a, b) ==
    IF a = 0 THEN b
    ELSE IF b = 0 THEN a
    ELSE (IF (a % 2) + (b % 2) > 0 THEN 1 ELSE 0) + 2 * BitOr(a \div 2, b \div 2)

Bit(v, k) == (v \div (2 ^ k)) % 2

\* The four port registers setled() writes: data (PA, PB) and direction
\* (PAC, PBC; a 1 bit makes the pin an output).
PinsAfterSetup == [PA |-> 0, PAC |-> 8, PB |-> 0, PBC |-> 0]

\* One case of a switch in setled(): "<low> &= mask; <low>C |= lbit;
\* <high> |= hbit; <high>C |= hbit", with low and high each "A" or "B".
DriveLow(p, port, mask, lbit) ==
    IF port = "A"
    THEN [p EXCEPT !.PA = BitAnd(p.PA, mask), !.PAC = BitOr(p.PAC, lbit)]
    ELSE [p EXCEPT !.PB = BitAnd(p.PB, mask), !.PBC = BitOr(p.PBC, lbit)]

DriveHigh(p, port, hbit) ==
    IF port = "A"
    THEN [p EXCEPT !.PA = BitOr(p.PA, hbit), !.PAC = BitOr(p.PAC, hbit)]
    ELSE [p EXCEPT !.PB = BitOr(p.PB, hbit), !.PBC = BitOr(p.PBC, hbit)]

LedCase(p, lowport, mask, lbit, highport, hbit) ==
    DriveHigh(DriveLow(p, lowport, mask, lbit), highport, hbit)

\* (mutation: the left outputs of the previous call stay enabled)
LeftOutputsKept(p) == p

\* "PAC &= 0x7f; PBC &= 0x0f": disable all left outputs
LeftOutputsOff(p) ==
    [p EXCEPT !.PAC = BitAnd(p.PAC, \h7f), !.PBC = BitAnd(p.PBC, \h0f)]

\* switch (left)
LeftSwitch(p, left) ==
    CASE left = 0  -> LedCase(p, "A", \h7f, \h80, "B", \h10)
      [] left = 1  -> LedCase(p, "B", \h7f, \h80, "B", \h10)
      [] left = 2  -> LedCase(p, "B", \hbf, \h40, "B", \h10)
      [] left = 3  -> LedCase(p, "B", \hdf, \h20, "B", \h10)
      [] left = 4  -> LedCase(p, "A", \h7f, \h80, "B", \h20)
      [] left = 5  -> LedCase(p, "B", \h7f, \h80, "B", \h20)
      [] left = 6  -> LedCase(p, "B", \hbf, \h40, "B", \h20)
      [] left = 7  -> LedCase(p, "B", \hef, \h10, "B", \h20)
      [] left = 8  -> LedCase(p, "A", \h7f, \h80, "B", \h40)
      [] left = 9  -> LedCase(p, "B", \h7f, \h80, "B", \h40)
      [] left = 10 -> LedCase(p, "B", \hdf, \h20, "B", \h40)
      [] left = 11 -> LedCase(p, "B", \hef, \h10, "B", \h40)
      [] left = 12 -> LedCase(p, "A", \h7f, \h80, "B", \h80)
      [] left = 13 -> LedCase(p, "B", \hbf, \h40, "B", \h80)
      [] left = 14 -> LedCase(p, "B", \hdf, \h20, "B", \h80)
      [] left = 15 -> LedCase(p, "B", \hef, \h10, "B", \h80)
      [] left = 16 -> LedCase(p, "B", \h7f, \h80, "A", \h80)
      [] left = 17 -> LedCase(p, "B", \hbf, \h40, "A", \h80)
      [] left = 18 -> LedCase(p, "B", \hdf, \h20, "A", \h80)
      [] left = 19 -> LedCase(p, "B", \hef, \h10, "A", \h80)
      [] OTHER     -> p

\* (mutation: 0xf6 for 0xfe, the direction bit of PA3 is cleared as well)
RightOutputsOffTypo(p) ==
    [p EXCEPT !.PAC = BitAnd(p.PAC, \hf6), !.PBC = BitAnd(p.PBC, \hf0)]

\* "PAC &= 0xfe; PBC &= 0xf0": disable all right outputs
RightOutputsOff(p) ==
    [p EXCEPT !.PAC = BitAnd(p.PAC, \hfe), !.PBC = BitAnd(p.PBC, \hf0)]

\* switch (right)
RightSwitch(p, right) ==
    CASE right = 0  -> LedCase(p, "A", \hfe, \h01, "B", \h08)
      [] right = 1  -> LedCase(p, "B", \hfe, \h01, "B", \h08)
      [] right = 2  -> LedCase(p, "B", \hfd, \h02, "B", \h08)
      [] right = 3  -> LedCase(p, "B", \hfb, \h04, "B", \h08)
      [] right = 4  -> LedCase(p, "A", \hfe, \h01, "B", \h04)
      [] right = 5  -> LedCase(p, "B", \hfe, \h01, "B", \h04)
      [] right = 6  -> LedCase(p, "B", \hfd, \h02, "B", \h04)
      [] right = 7  -> LedCase(p, "B", \hf7, \h08, "B", \h04)
      [] right = 8  -> LedCase(p, "A", \hfe, \h01, "B", \h02)
      [] right = 9  -> LedCase(p, "B", \hfe, \h01, "B", \h02)
      [] right = 10 -> LedCase(p, "B", \hfb, \h04, "B", \h02)
      [] right = 11 -> LedCase(p, "B", \hf7, \h08, "B", \h02)
      [] right = 12 -> LedCase(p, "A", \hfe, \h01, "B", \h01)
      [] right = 13 -> LedCase(p, "B", \hfd, \h02, "B", \h01)
      [] right = 14 -> LedCase(p, "B", \hfb, \h04, "B", \h01)
      [] right = 15 -> LedCase(p, "B", \hf7, \h08, "B", \h01)
      [] right = 16 -> LedCase(p, "B", \hfe, \h01, "A", \h01)
      [] right = 17 -> LedCase(p, "B", \hfd, \h02, "A", \h01)
      [] right = 18 -> LedCase(p, "B", \hfb, \h04, "A", \h01)
      [] right = 19 -> LedCase(p, "B", \hf7, \h08, "A", \h01)
      [] OTHER      -> p

\* void setled(int8_t left, int8_t right)
setled(p, left, right) ==
    LET q == IF left < LedKeep THEN LeftSwitch(LeftOutputsOff(p), left) ELSE p
    IN  IF right < LedKeep THEN RightSwitch(RightOutputsOff(q), right) ELSE q

\* The pin table of the comment above setled(): a pin is <<port, bit>>; the
\* pins of each side, and for each the LEDs it drives as minus pin and as
\* plus pin.
LeftPins == {<<"A", 7>>, <<"B", 4>>, <<"B", 5>>, <<"B", 6>>, <<"B", 7>>}

RightPins == {<<"A", 0>>, <<"B", 0>>, <<"B", 1>>, <<"B", 2>>, <<"B", 3>>}

LeftMinus(pin) ==
    CASE pin = <<"A", 7>> -> {0, 4, 8, 12}
      [] pin = <<"B", 7>> -> {1, 5, 9, 16}
      [] pin = <<"B", 6>> -> {2, 6, 13, 17}
      [] pin = <<"B", 5>> -> {3, 10, 14, 18}
      [] pin = <<"B", 4>> -> {7, 11, 15, 19}

LeftPlus(pin) ==
    CASE pin = <<"B", 4>> -> {0, 1, 2, 3}
      [] pin = <<"B", 5>> -> {4, 5, 6, 7}
      [] pin = <<"B", 6>> -> {8, 9, 10, 11}
      [] pin = <<"B", 7>> -> {12, 13, 14, 15}
      [] pin = <<"A", 7>> -> {16, 17, 18, 19}

RightMinus(pin) ==
    CASE pin = <<"A", 0>> -> {0, 4, 8, 12}
      [] pin = <<"B", 0>> -> {1, 5, 9, 16}
      [] pin = <<"B", 1>> -> {2, 6, 13, 17}
      [] pin = <<"B", 2>> -> {3, 10, 14, 18}
      [] pin = <<"B", 3>> -> {7, 11, 15, 19}

RightPlus(pin) ==
    CASE pin = <<"B", 3>> -> {0, 1, 2, 3}
      [] pin = <<"B", 2>> -> {4, 5, 6, 7}
      [] pin = <<"B", 1>> -> {8, 9, 10, 11}
      [] pin = <<"B", 0>> -> {12, 13, 14, 15}
      [] pin = <<"A", 0>> -> {16, 17, 18, 19}

\* A pin is an output when its bit of PAC or PBC is 1, and then driven to
\* the level of its bit of PA or PB.
IsOutput(p, pin) == Bit(IF pin[1] = "A" THEN p.PAC ELSE p.PBC, pin[2]) = 1

Level(p, pin) == Bit(IF pin[1] = "A" THEN p.PA ELSE p.PB, pin[2])

Outputs(p, pins) == {pin \in pins : IsOutput(p, pin)}

\* The LEDs of a side that conduct: plus pin an output driven high, minus
\* pin an output driven low.
Lit(p, pins, Plus(_), Minus(_)) ==
    {l \in 0 .. NLeds - 1 :
        \E hi \in Outputs(p, pins), lo \in Outputs(p, pins) :
            /\ l \in Plus(hi) /\ Level(p, hi) = 1
            /\ l \in Minus(lo) /\ Level(p, lo) = 0}

\* ------------------------------------------------------------ patterns
randomsequence ==
    << 9, 19, 3, 2, 16, 17, 6, 18, 1, 8, 0, 14, 15, 5, 7, 10, 11, 12, 4, 10,
       10, 1, 15, 8, 17, 9, 6, 16, 7, 13, 11, 0, 2, 3, 4, 18, 12, 14, 5, 19 >>

\* randomsequence[k], the C index k counted from 0
RandomAt(k) == randomsequence[k + 1]

\* The setled() arguments of each pattern function: part is the inner for
\* loop (counted from 0 within one repeat), i its loop variable.
\* (mutation: the dark side is passed as "leave unchanged")
singleledccwKeep(part, i) == IF part = 0 THEN <<i, 21>> ELSE <<21, 19 - i>>

singleledccw(part, i) == IF part = 0 THEN <<i, 20>> ELSE <<20, 19 - i>>
singleledcw(part, i) == IF part = 0 THEN <<20, i>> ELSE <<19 - i, 20>>
twoledsccw(part, i) == <<i, 19 - i>>
twoledscw(part, i) == <<19 - i, i>>
twoledsflapdown(part, i) == <<i, i>>
twoledsflapup(part, i) == <<19 - i, 19 - i>>
twoledsflap(part, i) == IF part = 0 THEN <<i, i>> ELSE <<19 - i, 19 - i>>
twoledsrandom(part, i) ==
    CASE part = 0 -> <<RandomAt(i), RandomAt(i + 20)>>
      [] part = 1 -> <<RandomAt(i + 20), RandomAt(i)>>
      [] part = 2 -> <<RandomAt(19 - i), RandomAt(39 - i)>>
      [] OTHER    -> <<RandomAt(39 - i), RandomAt(19 - i)>>

\* The pattern function loop() calls in each state
PatternArgs(f, part, i) ==
    CASE f = 1 -> singleledccw(part, i)
      [] f = 2 -> singleledcw(part, i)
      [] f = 3 -> twoledsccw(part, i)
      [] f = 4 -> twoledscw(part, i)
      [] f = 5 -> twoledsflapdown(part, i)
      [] f = 6 -> twoledsflapup(part, i)
      [] f = 7 -> twoledsflap(part, i)
      [] OTHER -> twoledsrandom(part, i)

\* Number of inner for loops in the body of pattern function f
Parts(f) ==
    CASE f \in {1, 2, 7} -> 2
      [] f = 8 -> 4
      [] OTHER -> 1

\* The repeat count loop() passes to the pattern function of state s
Repeats(s) == IF s \in {1, 2, 7, 8} THEN 4 ELSE 8

\* --------------------------------------------------------------- state
VARIABLES
    badges,            \* the badges powered on in this behaviour
    elapsedmillis,     \* volatile uint32_t elapsedmillis
    INTEN_T16,         \* the T16 bit of INTEN (1: interrupt enabled)
    INTRQ_T16,         \* the T16 bit of INTRQ (1: interrupt requested)
    ports,             \* PA, PAC, PB, PBC
    TM2C,              \* timer 2 control: CarrierOn while the IR LED is modulated
    rx,                \* level of the sync input PA4 (pulled up: 1 when idle)
    state,             \* uint8_t state
    previoustime,      \* uint32_t previoustime
    previouspinstate,  \* uint8_t previouspinstate
    pc,                \* position of the main context in the program
    fn, n, r, part, i, \* running pattern function, its argument and loop variables
    time,              \* argument of the running waituntil() or syncpulse()
    currenttime,       \* local of waituntil() and syncpulse()
    currentpinstate,   \* local of waituntil()
    ret,               \* value the last waituntil() returned
    mpc, current,      \* position inside millis() and the bytes it has read
    mobs,              \* what an observer of millis() has seen (see NoMillisObs)
    \* history variables (not program state)
    mode,              \* which history variables this behaviour records
    ticksleft,         \* clock ticks the behaviour may still take
    nsteps,            \* setled() calls made so far
    ledtime,           \* elapsedmillis at the last setled() call, <<>> once
                       \* a sync pulse has started after it
    held,              \* clock time the step before the last setled() call
                       \* was shown: until that call, or until syncpulse()
    dispatched,        \* the switch values loop() has dispatched on
    pulses,            \* sync pulses transmitted so far
    wobs               \* what an observer of waituntil() has seen (see NoObs)

hwvars == <<elapsedmillis, INTEN_T16, INTRQ_T16, ports, TM2C, rx>>
globals == <<state, previoustime, previouspinstate>>
patvars == <<fn, n, r, part, i>>
waitvars == <<time, currenttime, currentpinstate, ret>>
millisvars == <<mpc, current, mobs>>
ledhist == <<nsteps, ledtime, held>>
runhist == <<mode, ticksleft, nsteps, ledtime, held, dispatched, pulses>>
histvars == <<runhist, wobs>>
vars == <<badges, hwvars, globals, pc, patvars, waitvars, millisvars, histvars>>

Upd(f, b, v) == [f EXCEPT ![b] = v]

BadgeIds == 1 .. NBadges

\* ---------------------------------------------------------------- clock
\* void interrupt(void): the handler run for a pending, enabled T16 request
InterruptCount(v) == UAdd(v, U32(1))

\* One T16 period with the interrupt enabled: the request is raised and the
\* handler runs at once (INTRQ is set and cleared again, elapsedmillis++).
Tick(b) ==
    /\ INTEN_T16[b] = 1
    /\ ticksleft[b] > 0
    /\ elapsedmillis' = Upd(elapsedmillis, b, InterruptCount(elapsedmillis[b]))
    /\ ticksleft' = Upd(ticksleft, b, ticksleft[b] - 1)
    /\ UNCHANGED <<badges, INTEN_T16, INTRQ_T16, ports, TM2C, rx, globals, pc,
                   patvars, waitvars, millisvars, mode, ledhist, dispatched, pulses,
                   wobs>>

\* uint32_t millis(): the guarded read, taken as one step
millis(b) == elapsedmillis[b]

\* (PA >> 4) & 1
SyncPin(b) == rx[b]

\* ------------------------------------------- millis(), byte by byte
\* The 8-bit core reads the four bytes of elapsedmillis one at a time, in an
\* order the compiler chooses; current[k] is byte k (k = 0 the lowest).
Byte(v, k) == (v[2 - k \div 2] \div (256 ^ (k % 2))) % 256

Value(cur) == <<cur[2] + 256 * cur[3], cur[0] + 256 * cur[1]>>

\* The observer of millis(), recorded in mode "millis".  raised counts the
\* T16 requests raised since setup(); of the running (or last) call, held
\* is the set of values elapsedmillis has had between the disable and the
\* re-enable, req says that a T16 request was raised since the call began,
\* and masked that one was raised while INTEN_T16 was 0.
NoMillisObs == [raised |-> 0, held |-> {}, req |-> FALSE, masked |-> FALSE]

\* The interrupt is taken before the next instruction of the main context
\* once it is both requested and enabled.
Pending(b) == INTEN_T16[b] = 1 /\ INTRQ_T16[b] = 1

\* (mutation: millis() does not disable the interrupt)
MaskT16Skipped(inten) == inten

\* INTEN &= ~INTEN_T16;
MaskT16(inten) == 0

\* INTEN |= INTEN_T16;
UnmaskT16(inten) == 1

\* line 65
MillisDisable(b) ==
    /\ b \in badges /\ mpc[b] = "idle" /\ ~Pending(b)
    /\ INTEN_T16' = Upd(INTEN_T16, b, MaskT16(INTEN_T16[b]))
    /\ mpc' = Upd(mpc, b, "read")
    /\ current' = Upd(current, b, [k \in {} |-> 0])
    /\ mobs' = Upd(mobs, b, [mobs[b] EXCEPT !.held = {elapsedmillis[b]},
                                             !.req = FALSE, !.masked = FALSE])
    /\ UNCHANGED <<badges, elapsedmillis, INTRQ_T16, ports, TM2C, rx, globals, pc,
                   patvars, waitvars, histvars>>

\* line 66, one byte of "uint32_t current = elapsedmillis;"
MillisReadByte(b) ==
    /\ b \in badges /\ mpc[b] = "read" /\ ~Pending(b)
    /\ \E j \in (0 .. 3) \ DOMAIN current[b] :
          current' = Upd(current, b,
              [k \in DOMAIN current[b] \cup {j} |->
                  IF k = j THEN Byte(elapsedmillis[b], j) ELSE current[b][k]])
    /\ UNCHANGED <<badges, hwvars, globals, pc, patvars, waitvars, mpc, mobs,
                   histvars>>

\* line 67
MillisEnable(b) ==
    /\ b \in badges /\ mpc[b] = "read" /\ ~Pending(b)
    /\ DOMAIN current[b] = 0 .. 3
    /\ INTEN_T16' = Upd(INTEN_T16, b, UnmaskT16(INTEN_T16[b]))
    /\ mpc' = Upd(mpc, b, "ret")
    /\ UNCHANGED <<badges, elapsedmillis, INTRQ_T16, ports, TM2C, rx, globals, pc,
                   patvars, waitvars, current, mobs, histvars>>

\* line 68, "return(current);", into the caller's "currenttime = millis();"
MillisReturn(b) ==
    /\ b \in badges /\ mpc[b] = "ret" /\ ~Pending(b)
    /\ currenttime' = Upd(currenttime, b, Value(current[b]))
    /\ mpc' = Upd(mpc, b, "idle")
    /\ UNCHANGED <<badges, hwvars, globals, pc, patvars, time, currentpinstate, ret,
                   current, mobs, histvars>>

\* Bit 8 of T16 toggles (once a millisecond, lines 35-38 and 43-44) and the
\* hardware sets INTRQ_T16.  The main context calls millis() back to back
\* and a call takes a few instructions, so that at most one period ends
\* from the start of a call to the start of the next.
T16Request(b) ==
    /\ b \in badges /\ ~Pending(b)
    /\ ticksleft[b] > 0
    /\ ~mobs[b].req
    /\ INTRQ_T16' = Upd(INTRQ_T16, b, 1)
    /\ ticksleft' = Upd(ticksleft, b, ticksleft[b] - 1)
    /\ mobs' = Upd(mobs, b, [mobs[b] EXCEPT !.raised = mobs[b].raised + 1,
                                             !.req = TRUE,
                                             !.masked = INTEN_T16[b] = 0])
    /\ UNCHANGED <<badges, elapsedmillis, INTEN_T16, ports, TM2C, rx, globals, pc,
                   patvars, waitvars, mpc, current, mode, ledhist, dispatched,
                   pulses, wobs>>

\* void interrupt(void), lines 52-58, run for a requested and enabled T16
Interrupt(b) ==
    /\ b \in badges /\ Pending(b)
    /\ INTRQ_T16' = Upd(INTRQ_T16, b, 0)
    /\ elapsedmillis' = Upd(elapsedmillis, b, InterruptCount(elapsedmillis[b]))
    /\ mobs' = Upd(mobs, b,
           IF mpc[b] = "read"
           THEN [mobs[b] EXCEPT !.held = mobs[b].held \cup {elapsedmillis'[b]}]
           ELSE mobs[b])
    /\ UNCHANGED <<badges, INTEN_T16, ports, TM2C, rx, globals, pc, patvars,
                   waitvars, mpc, current, histvars>>

\* ----------------------------------------------------------- waituntil
\* The observer of waituntil(), recorded in mode "poll".  Of the running (or
\* last) call: entrypt and entrypin are previoustime and previouspinstate at
\* entry; last is the latest pin sample taken; polled says that the loop
\* body has run; latepoll says that the loop body was entered on a clock
\* reading not below previoustime + time; edgeany says that in the sequence
\* entrypin, sample, sample, ... a 0 was immediately followed by a 1; edgein
\* says that two successive samples of this call were 0 then 1, the 1 taken
\* while the clock was still below entrypt + time, and lateedge that they
\* were 0 then 1 with the 1 taken when the clock had reached entrypt + time.
\* Across calls: base is the value previoustime was last given by setup(),
\* a sync detection or syncpulse(), and tmo the timeouts returned since;
\* recent is the latest pin sample the badge has taken and before the one
\* taken before it (2: none taken yet); lows says that a LOW sample was
\* taken since setup() or since the call after the last sync detection began.
NoObs ==
    [entrypt |-> U32(0), entrypin |-> 1, last |-> 1, polled |-> FALSE,
     latepoll |-> FALSE, edgeany |-> FALSE, edgein |-> FALSE,
     lateedge |-> FALSE, base |-> U32(0), tmo |-> 0,
     recent |-> 2, before |-> 2, lows |-> FALSE]

\* At the entry of the call that follows one that returned rv
ObsRearm(o, rv) == IF rv = 1 THEN [o EXCEPT !.lows = FALSE] ELSE o

ObsEntry(o, pt, pps) ==
    [o EXCEPT !.entrypt = pt, !.entrypin = pps, !.last = pps, !.polled = FALSE,
              !.latepoll = FALSE, !.edgeany = FALSE, !.edgein = FALSE,
              !.lateedge = FALSE]

ObsSample(o, s, clock, t, inbody) ==
    [o EXCEPT !.last = s,
              !.polled = o.polled \/ inbody,
              !.edgeany = o.edgeany \/ (o.last = 0 /\ s = 1),
              !.edgein = o.edgein \/ (inbody /\ o.last = 0 /\ s = 1
                                        /\ ULess(USub(clock, o.entrypt), FromInt16(t))),
              !.lateedge = o.lateedge \/ (inbody /\ o.last = 0 /\ s = 1
                                            /\ ULeq(FromInt16(t), USub(clock, o.entrypt))),
              !.before = o.recent,
              !.recent = s,
              !.lows = o.lows \/ s = 0]

Observe(b, o) == wobs' = Upd(wobs, b, IF mode = "poll" THEN o ELSE wobs[b])

\* (mutation: the loop waits for the edge only)
WaitConditionNoTimeout(ct, pt, t, cps, pps) == cps = 0 \/ pps = 1

\* (mutation: the clock is compared with a deadline, previoustime + time)
WaitConditionDeadline(ct, pt, t, cps, pps) ==
    /\ ULess(ct, UAdd(pt, FromInt16(t)))
    /\ (cps = 0 \/ pps = 1)

\* (mutation: "<=" for "<" in the time test)
WaitConditionInclusive(ct, pt, t, cps, pps) ==
    /\ ULeq(USub(ct, pt), FromInt16(t))
    /\ (cps = 0 \/ pps = 1)

\* while ((currenttime - previoustime < time) && (currentpinstate==0 || previouspinstate==1))
WaitCondition(ct, pt, t, cps, pps) ==
    /\ ULess(USub(ct, pt), FromInt16(t))
    /\ (cps = 0 \/ pps = 1)

\* (mutation: a falling edge counts as well)
RisingEdgeEither(cps, pps) == cps # pps

\* (mutation: the level is tested, not the edge)
RisingEdgeLevel(cps, pps) == cps = 1

\* if (currentpinstate==1 && previouspinstate==0)
RisingEdge(cps, pps) == cps = 1 /\ pps = 0

\* (mutation: the baseline follows the clock reading)
TimeoutBaselineObserved(pt, ct, t) == ct

\* previoustime += time
TimeoutBaseline(pt, ct, t) == UAdd(pt, FromInt16(t))

\* previoustime = currenttime
SyncBaseline(pt, ct, t) == ct

\* state = 0
SyncState(s) == 0

\* (mutation: line 258 is missing)
SyncPinStateKept(pps) == pps

\* previouspinstate=1;  (line 258)
SyncPinState(pps) == 1

\* line 244: uint32_t currenttime = millis();
WaitEntryRead(b) ==
    /\ b \in badges /\ pc[b] = "wentry"
    /\ currenttime' = Upd(currenttime, b, millis(b))
    /\ pc' = Upd(pc, b, "wentry2")
    /\ Observe(b, ObsEntry(ObsRearm(wobs[b], ret[b]),
                            previoustime[b], previouspinstate[b]))
    /\ UNCHANGED <<badges, hwvars, globals, patvars, time, currentpinstate, ret,
                   millisvars, runhist>>

\* line 245: uint8_t currentpinstate = (PA >> 4) & 1;
WaitEntrySample(b) ==
    /\ b \in badges /\ pc[b] = "wentry2"
    /\ currentpinstate' = Upd(currentpinstate, b, SyncPin(b))
    /\ pc' = Upd(pc, b, "wcheck")
    /\ Observe(b, ObsSample(wobs[b], SyncPin(b), elapsedmillis[b], time[b], FALSE))
    /\ UNCHANGED <<badges, hwvars, globals, patvars, time, currenttime, ret,
                   millisvars, runhist>>

Waiting(b) ==
    WaitCondition(currenttime[b], previoustime[b], time[b],
                  currentpinstate[b], previouspinstate[b])

\* line 247 true, line 249: currenttime = millis();
WaitLoopRead(b) ==
    /\ b \in badges /\ pc[b] = "wcheck"
    /\ Waiting(b)
    /\ currenttime' = Upd(currenttime, b, millis(b))
    /\ pc' = Upd(pc, b, "wbody")
    /\ Observe(b, [wobs[b] EXCEPT !.latepoll =
                      wobs[b].latepoll
                          \/ ULeq(FromInt16(time[b]),
                                  USub(currenttime[b], previoustime[b]))])
    /\ UNCHANGED <<badges, hwvars, globals, patvars, time, currentpinstate, ret,
                   millisvars, runhist>>

\* lines 250-251: previouspinstate=currentpinstate; currentpinstate = (PA >> 4) & 1;
WaitLoopSample(b) ==
    /\ b \in badges /\ pc[b] = "wbody"
    /\ previouspinstate' = Upd(previouspinstate, b, currentpinstate[b])
    /\ currentpinstate' = Upd(currentpinstate, b, SyncPin(b))
    /\ pc' = Upd(pc, b, "wcheck")
    /\ Observe(b, ObsSample(wobs[b], SyncPin(b), elapsedmillis[b], time[b], TRUE))
    /\ UNCHANGED <<badges, hwvars, state, previoustime, patvars, time, currenttime,
                   ret, millisvars, runhist>>

\* line 247 false, lines 254-265: the sync branch or the timeout branch
WaitReturn(b) ==
    /\ b \in badges /\ pc[b] = "wcheck"
    /\ ~Waiting(b)
    /\ IF RisingEdge(currentpinstate[b], previouspinstate[b])
       THEN /\ state' = Upd(state, b, SyncState(state[b]))
            /\ previoustime' = Upd(previoustime, b,
                   SyncBaseline(previoustime[b], currenttime[b], time[b]))
            /\ previouspinstate' = Upd(previouspinstate, b,
                   SyncPinState(previouspinstate[b]))
            /\ ret' = Upd(ret, b, 1)
       ELSE /\ previoustime' = Upd(previoustime, b,
                   TimeoutBaseline(previoustime[b], currenttime[b], time[b]))
            /\ ret' = Upd(ret, b, 0)
            /\ UNCHANGED <<state, previouspinstate>>
    /\ pc' = Upd(pc, b, "wret")
    /\ Observe(b, IF ret'[b] = 1
                  THEN [wobs[b] EXCEPT !.base = previoustime'[b], !.tmo = 0]
                  ELSE [wobs[b] EXCEPT !.tmo = wobs[b].tmo + 1])
    /\ UNCHANGED <<badges, hwvars, patvars, time, currenttime, currentpinstate,
                   millisvars, runhist>>

\* ------------------------------------------------------------ patterns
\* The body of every inner for loop starts with setled(...), then calls
\* waituntil(25).  The history variables count the call and the clock time
\* since the previous one.
PatternSetled(b) ==
    /\ b \in badges /\ pc[b] = "step"
    /\ LET a == PatternArgs(fn[b], part[b], i[b])
       IN  ports' = Upd(ports, b, setled(ports[b], a[1], a[2]))
    /\ time' = Upd(time, b, StepTime)
    /\ pc' = Upd(pc, b, "wentry")
    /\ IF mode = "run"
       THEN /\ nsteps' = Upd(nsteps, b, nsteps[b] + 1)
            /\ ledtime' = Upd(ledtime, b, elapsedmillis[b])
            /\ held' = Upd(held, b, IF ledtime[b] # <<>>
                                     THEN USub(elapsedmillis[b], ledtime[b])
                                     ELSE held[b])
       ELSE UNCHANGED ledhist
    /\ UNCHANGED <<badges, elapsedmillis, INTEN_T16, INTRQ_T16, TM2C, rx, globals,
                   patvars, currenttime, currentpinstate, ret, millisvars,
                   mode, ticksleft, dispatched, pulses, wobs>>

\* (mutation: the value waituntil() returned is not looked at)
NextPositionNoAbort(f, cnt, rr, pp, ii, rv) ==
    IF ii + 1 < NLeds THEN [done |-> FALSE, r |-> rr, part |-> pp, i |-> ii + 1]
    ELSE IF pp + 1 < Parts(f) THEN [done |-> FALSE, r |-> rr, part |-> pp + 1, i |-> 0]
    ELSE IF rr + 1 < cnt THEN [done |-> FALSE, r |-> rr + 1, part |-> 0, i |-> 0]
    ELSE [done |-> TRUE, r |-> rr, part |-> pp, i |-> ii]

\* "if (waituntil(25)) {return; }", then the three nested loop headers:
\* i++ while i<20, the next inner loop of the body, r++ while r<n.
\* The result is the position of the next setled() call, or "return".
NextPosition(f, cnt, rr, pp, ii, rv) ==
    IF rv # 0 THEN [done |-> TRUE, r |-> rr, part |-> pp, i |-> ii]
    ELSE IF ii + 1 < NLeds THEN [done |-> FALSE, r |-> rr, part |-> pp, i |-> ii + 1]
    ELSE IF pp + 1 < Parts(f) THEN [done |-> FALSE, r |-> rr, part |-> pp + 1, i |-> 0]
    ELSE IF rr + 1 < cnt THEN [done |-> FALSE, r |-> rr + 1, part |-> 0, i |-> 0]
    ELSE [done |-> TRUE, r |-> rr, part |-> pp, i |-> ii]

PatternNext(b) ==
    /\ b \in badges /\ pc[b] = "wret"
    /\ LET nx == NextPosition(fn[b], n[b], r[b], part[b], i[b], ret[b])
       IN  /\ r' = Upd(r, b, nx.r)
           /\ part' = Upd(part, b, nx.part)
           /\ i' = Upd(i, b, nx.i)
           /\ pc' = Upd(pc, b, IF nx.done THEN "loop" ELSE "step")
    /\ UNCHANGED <<badges, hwvars, globals, fn, n, waitvars, millisvars, histvars>>

\* ----------------------------------------------------------- syncpulse
\* Level of the receiver pin of badge c while the badges in tx transmit:
\* the receiver pulls PA4 low while it sees a carrier, and a low-to-high
\* transition is the end of a pulse.
Received(c, tx) == IF \E d \in tx : d # c THEN 0 ELSE 1

Transmitting(tm) == {d \in DOMAIN tm : tm[d] = CarrierOn}

\* (mutation: syncpulse() advances the baseline as a timeout does)
PulseBaselineAdvanced(pt, ct) == UAdd(pt, FromInt16(PulseTime))

\* previoustime=currenttime; (line 297)
PulseBaseline(pt, ct) == ct

\* lines 291-297: start the carrier, currenttime = millis(); previoustime=currenttime;
PulseStart(b) ==
    /\ b \in badges /\ pc[b] = "pulse"
    /\ TM2C' = Upd(TM2C, b, CarrierOn)
    /\ rx' = [c \in badges |-> IF c = b THEN rx[c]
                               ELSE Received(c, Transmitting(TM2C'))]
    /\ currenttime' = Upd(currenttime, b, millis(b))
    /\ previoustime' = Upd(previoustime, b, PulseBaseline(previoustime[b], millis(b)))
    /\ pc' = Upd(pc, b, "pcheck")
    /\ IF mode = "run"
       THEN /\ held' = Upd(held, b, IF ledtime[b] # <<>>
                                     THEN USub(elapsedmillis[b], ledtime[b])
                                     ELSE held[b])
            /\ ledtime' = Upd(ledtime, b, <<>>)
       ELSE UNCHANGED <<held, ledtime>>
    /\ Observe(b, [wobs[b] EXCEPT !.base = previoustime'[b], !.tmo = 0])
    /\ UNCHANGED <<badges, elapsedmillis, INTEN_T16, INTRQ_T16, ports, state,
                   previouspinstate, patvars, time, currentpinstate, ret,
                   millisvars, mode, ticksleft, nsteps, dispatched, pulses>>

\* (mutation: the pulse is one millisecond short)
PulseConditionShort(ct, pt, t) == ULess(UAdd(USub(ct, pt), U32(1)), FromInt16(t))

\* while (currenttime - previoustime < time)
PulseCondition(ct, pt, t) == ULess(USub(ct, pt), FromInt16(t))

Pulsing(b) == PulseCondition(currenttime[b], previoustime[b], time[b])

\* line 300: currenttime = millis();
PulseRead(b) ==
    /\ b \in badges /\ pc[b] = "pcheck"
    /\ Pulsing(b)
    /\ currenttime' = Upd(currenttime, b, millis(b))
    /\ UNCHANGED <<badges, hwvars, globals, pc, patvars, time, currentpinstate, ret,
                   millisvars, histvars>>

\* (mutation: state is set to the first pattern state after the pulse)
StateAfterPulseOne == 0 + 1

\* The value loop() gives state after syncpulse() returns (line 489)
StateAfterPulse == 0

\* lines 302-303, "TM2C=0; PA=0;", and back in loop(), "state=0; break;"
PulseStop(b) ==
    /\ b \in badges /\ pc[b] = "pcheck"
    /\ ~Pulsing(b)
    /\ TM2C' = Upd(TM2C, b, 0)
    /\ rx' = [c \in badges |-> IF c = b THEN rx[c]
                               ELSE Received(c, Transmitting(TM2C'))]
    /\ ports' = Upd(ports, b, [ports[b] EXCEPT !.PA = 0])
    /\ state' = Upd(state, b, StateAfterPulse)
    /\ pc' = Upd(pc, b, "loop")
    /\ pulses' = Upd(pulses, b, IF mode \in {"run", "air"} THEN pulses[b] + 1
                                                             ELSE pulses[b])
    /\ UNCHANGED <<badges, elapsedmillis, INTEN_T16, INTRQ_T16, previoustime,
                   previouspinstate, patvars, waitvars, millisvars,
                   mode, ticksleft, ledhist, dispatched, wobs>>

\* ----------------------------------------------------------------- loop
\* state++
NextState(s) == (s + 1) % 256

\* (mutation: the switch lacks "case 8")
IsPatternStateShort(s) == s \in 1..7

\* switch (state): cases 1..8 call a pattern function, default syncpulse(25)
IsPatternState(s) == s \in 1..8

LoopDispatch(b) ==
    /\ b \in badges /\ pc[b] = "loop"
    /\ LET s == NextState(state[b])
       IN  /\ state' = Upd(state, b, s)
           /\ dispatched' = Upd(dispatched, b,
                  IF mode = "run" THEN Append(dispatched[b], s) ELSE dispatched[b])
           /\ IF IsPatternState(s)
              THEN /\ fn' = Upd(fn, b, s)
                   /\ n' = Upd(n, b, Repeats(s))
                   /\ r' = Upd(r, b, 0)
                   /\ part' = Upd(part, b, 0)
                   /\ i' = Upd(i, b, 0)
                   /\ pc' = Upd(pc, b, "step")
                   /\ UNCHANGED time
              ELSE /\ time' = Upd(time, b, PulseTime)
                   /\ pc' = Upd(pc, b, "pulse")
                   /\ UNCHANGED patvars
    /\ UNCHANGED <<badges, hwvars, previoustime, previouspinstate, currenttime,
                   currentpinstate, ret, millisvars, mode, ticksleft, ledhist, pulses,
                   wobs>>

\* One step of the main context of badge b
Program(b) ==
    \/ LoopDispatch(b)
    \/ PatternSetled(b)
    \/ WaitEntryRead(b)
    \/ WaitEntrySample(b)
    \/ WaitLoopRead(b)
    \/ WaitLoopSample(b)
    \/ WaitReturn(b)
    \/ PatternNext(b)
    \/ PulseStart(b)
    \/ PulseRead(b)
    \/ PulseStop(b)

\* ---------------------------------------------------------------- setup
\* Steps (setled() calls) of one call of the pattern function of state s,
\* and of the states 1..s together
StepsOf(s) == Repeats(s) * Parts(s) * NLeds

RECURSIVE StepsThrough(_)
StepsThrough(s) == IF s = 0 THEN 0 ELSE StepsThrough(s - 1) + StepsOf(s)

\* Where the k-th setled() call of an undisturbed cycle sits (k from 0):
\* pattern f, repeat r, part (for loop) and index i of the loop nest.
StepAt(k) ==
    LET f   == CHOOSE s \in 1 .. 8 : StepsThrough(s - 1) <= k /\ k < StepsThrough(s)
        q   == k - StepsThrough(f - 1)
        per == Parts(f) * NLeds
    IN  [f |-> f, r |-> q \div per, part |-> (q % per) \div NLeds, i |-> q % NLeds]

\* The steps of an undisturbed cycle at which the runs below take a badge
\* up: the last step of each pattern, the end of the first for loop of
\* pattern 1, the end of the first repeat of pattern 8, and the last step
\* but one of pattern 8.
Checkpoints ==
    {StepsThrough(s) - 1 : s \in 1 .. 8}
        \cup {NLeds - 1, StepsThrough(7) + Parts(8) * NLeds - 1, StepsThrough(8) - 2}

\* The port registers before the k-th setled() call of an undisturbed
\* cycle, for k in Checkpoints: what the k calls before it leave of the
\* registers set up by setup() (RunPassesStateAt).
PinsBefore(k) ==
    CASE k = NLeds - 1
           -> [PA |-> 128, PAC |-> 136, PB |-> 0, PBC |-> 32]
      [] k = StepsThrough(1) - 1
           -> [PA |-> 128, PAC |-> 8, PB |-> 8, PBC |-> 9]
      [] k = StepsThrough(2) - 1
           -> [PA |-> 1, PAC |-> 8, PB |-> 16, PBC |-> 144]
      [] k = StepsThrough(3) - 1
           -> [PA |-> 128, PAC |-> 136, PB |-> 8, PBC |-> 41]
      [] k = StepsThrough(4) - 1
           -> [PA |-> 1, PAC |-> 9, PB |-> 16, PBC |-> 148]
      [] k = StepsThrough(5) - 1
           -> [PA |-> 129, PAC |-> 137, PB |-> 0, PBC |-> 36]
      [] k = StepsThrough(6) - 1
           -> [PA |-> 0, PAC |-> 8, PB |-> 24, PBC |-> 153]
      [] k = StepsThrough(7) - 1
           -> [PA |-> 0, PAC |-> 8, PB |-> 24, PBC |-> 153]
      [] k = StepsThrough(7) + Parts(8) * NLeds - 1
           -> [PA |-> 1, PAC |-> 9, PB |-> 112, PBC |-> 152]
      [] k = StepsThrough(8) - 2
           -> [PA |-> 1, PAC |-> 8, PB |-> 232, PBC |-> 156]
      [] k = StepsThrough(8) - 1
           -> [PA |-> 1, PAC |-> 9, PB |-> 112, PBC |-> 152]

\* The state of one badge k steps into an undisturbed cycle started by
\* setup() with the clock at 0. k = 0: as setup() leaves it, main() about
\* to call loop() for the first time. k >= 1: step k - 1 has been held for
\* its 25 ms and the pattern is about to call setled() for step k.
StateAt(k) ==
    IF k = 0
    THEN [elapsedmillis |-> U32(0), ports |-> PinsAfterSetup, state |-> 0,
          previoustime |-> U32(0), previouspinstate |-> 1, pc |-> "loop",
          fn |-> 0, n |-> 0, r |-> 0, part |-> 0, i |-> 0, time |-> 0,
          currenttime |-> U32(0), currentpinstate |-> 0, ret |-> 0]
    ELSE LET a == StepAt(k)
         IN  [elapsedmillis |-> U32(StepTime * k), ports |-> PinsBefore(k),
              state |-> a.f, previoustime |-> U32(StepTime * k),
              previouspinstate |-> 1, pc |-> "step",
              fn |-> a.f, n |-> Repeats(a.f), r |-> a.r, part |-> a.part,
              i |-> a.i, time |-> StepTime, currenttime |-> U32(StepTime * k),
              currentpinstate |-> 1, ret |-> 0]

\* What StateAt describes, read off badge b
ProgramState(b) ==
    [elapsedmillis |-> elapsedmillis[b], ports |-> ports[b], state |-> state[b],
     previoustime |-> previoustime[b], previouspinstate |-> previouspinstate[b],
     pc |-> pc[b], fn |-> fn[b], n |-> n[b], r |-> r[b], part |-> part[b],
     i |-> i[b], time |-> time[b], currenttime |-> currenttime[b],
     currentpinstate |-> currentpinstate[b], ret |-> ret[b]]

\* Badges bs, badge b in program state st[b] with at[b] steps of its cycle
\* played, no pulse in the air; history mode m and tick budget k[b].
StartingIn(bs, st, at, m, k) ==
    /\ badges = bs
    /\ elapsedmillis = [b \in bs |-> st[b].elapsedmillis]
    /\ INTEN_T16 = [b \in bs |-> 1]
    /\ INTRQ_T16 = [b \in bs |-> 0]
    /\ ports = [b \in bs |-> st[b].ports]
    /\ TM2C = [b \in bs |-> 0]
    /\ rx = [b \in bs |-> 1]
    /\ state = [b \in bs |-> st[b].state]
    /\ previoustime = [b \in bs |-> st[b].previoustime]
    /\ previouspinstate = [b \in bs |-> st[b].previouspinstate]
    /\ pc = [b \in bs |-> st[b].pc]
    /\ fn = [b \in bs |-> st[b].fn]
    /\ n = [b \in bs |-> st[b].n]
    /\ r = [b \in bs |-> st[b].r]
    /\ part = [b \in bs |-> st[b].part]
    /\ i = [b \in bs |-> st[b].i]
    /\ time = [b \in bs |-> st[b].time]
    /\ currenttime = [b \in bs |-> st[b].currenttime]
    /\ currentpinstate = [b \in bs |-> st[b].currentpinstate]
    /\ ret = [b \in bs |-> st[b].ret]
    /\ mpc = [b \in bs |-> "idle"]
    /\ current = [b \in bs |-> <<>>]
    /\ mobs = [b \in bs |-> NoMillisObs]
    /\ mode = m
    /\ ticksleft = [b \in bs |-> k[b]]
    /\ nsteps = [b \in bs |-> at[b]]
    /\ ledtime = [b \in bs |-> U32(IF at[b] = 0 THEN 0 ELSE StepTime * (at[b] - 1))]
    /\ held = [b \in bs |-> U32(0)]
    /\ dispatched = [b \in bs |-> <<>>]
    /\ pulses = [b \in bs |-> 0]
    /\ wobs = [b \in bs |-> [NoObs EXCEPT !.base = st[b].previoustime]]

\* Badges bs, badge b being at[b] steps into an undisturbed cycle
Starting(bs, at, m, k) ==
    StartingIn(bs, [b \in bs |-> StateAt(at[b])], at, m, k)

\* ------------------------------------------------- the full cycle, alone
\* One badge with no other badge in range (the sync pin stays high) and
\* polling overhead below one clock tick: the clock ticks only while the
\* main context polls in waituntil() or syncpulse() and has read the
\* current clock value.
Polled(b) ==
    \/ pc[b] = "wcheck" /\ Waiting(b) /\ currenttime[b] = elapsedmillis[b]
    \/ pc[b] = "pcheck" /\ Pulsing(b) /\ currenttime[b] = elapsedmillis[b]

RunTick(b) == b \in badges /\ Polled(b) /\ Tick(b)

RunInit == Starting({1}, [b \in {1} |-> 0], "run", [b \in {1} |-> MaxRunTicks])

RunNext == \E b \in BadgeIds : Program(b) \/ RunTick(b)

SpecRun == RunInit /\ [][RunNext]_vars

\* The undisturbed cycle passes through StateAt(k) at every checkpoint k.
RunPassesStateAt ==
    \A b \in badges :
        (pc[b] = "step" /\ pulses[b] = 0 /\ nsteps[b] \in Checkpoints)
            => ProgramState(b) = StateAt(nsteps[b])

\* C1: starting from state 0 with no sync edge, successive loop() calls
\* dispatch the patterns of states 1, 2, ..., 8 in that order with repeat
\* counts 4, 4, 8, 8, 8, 8, 4, 4; the ninth call takes the default branch,
\* transmits a sync pulse of 25 ms and leaves state at 0; the tenth call
\* dispatches pattern 1 again.
C1_DispatchOrder ==
    \A b \in badges :
        /\ \A k \in 1 .. Len(dispatched[b]) : dispatched[b][k] = ((k - 1) % 9) + 1
        /\ pc[b] \in {"step", "wentry", "wentry2", "wcheck", "wbody", "wret"}
              => /\ fn[b] = dispatched[b][Len(dispatched[b])]
                 /\ fn[b] \in 1 .. 8
                 /\ n[b] = <<4, 4, 8, 8, 8, 8, 4, 4>>[fn[b]]
        /\ pc[b] \in {"pulse", "pcheck"}
              => dispatched[b][Len(dispatched[b])] = 9
        /\ (pc[b] = "loop" /\ Len(dispatched[b]) = 9)
              => /\ state[b] = 0
                 /\ pulses[b] = 1
                 /\ TM2C[b] = 0
                 /\ USub(elapsedmillis[b], previoustime[b]) = U32(25)

C1_TenthCallPatternOne ==
    /\ Len(dispatched[1]) = 10
    /\ dispatched[1] = <<1, 2, 3, 4, 5, 6, 7, 8, 9, 1>>
    /\ pc[1] = "step"
    /\ fn[1] = 1

\* C7 (as claimed): every animation step is shown for 25 ms: the clock
\* advances by 25 ms from the setled() call of a step to the setled() call
\* of the next step (or to the start of the sync pulse), the first step
\* after setup and the first step after a sync pulse included.
C7_EveryStepHeld25 ==
    \A b \in badges : nsteps[b] >= 2 => held[b] = U32(25)

\* C8: with the clock starting at 0 and no sync edge, the first sync pulse
\* starts only when all eight patterns have played all their repeats
\* (1440 steps), and the clock at the end of that pulse is 25 ms times the
\* number of steps played, plus 25 ms.
C8_EndToEnd ==
    \A b \in badges :
        /\ (pc[b] \in {"pulse", "pcheck"} /\ pulses[b] = 0)
              => /\ nsteps[b] = StepsThrough(8)
                 /\ nsteps[b] = (4 + 4 + 4 + 4) * 40 + (8 + 8 + 8 + 8) * 20 + 4 * 40
                 /\ dispatched[b] = <<1, 2, 3, 4, 5, 6, 7, 8, 9>>
        /\ (pc[b] = "loop" /\ pulses[b] = 1)
              => /\ nsteps[b] = StepsThrough(8)
                 /\ elapsedmillis[b] = U32(25 * nsteps[b] + 25)

C8_FirstPulseDone ==
    /\ pc[1] = "loop"
    /\ pulses[1] = 1
    /\ nsteps[1] = 1440
    /\ elapsedmillis[1] = U32(36025)

\* C12: every argument a pattern passes to setled() is in 0..20, a position
\* or "side off", never the "leave unchanged" value (21 or more) and never
\* negative, at every repeat, for loop and index of the eight patterns; the
\* loop variables stay within their bounds, and the random pattern reads
\* its table inside its 40 entries.
C12_PatternArgsInRange ==
    \A b \in badges :
        pc[b] \in {"step", "wentry", "wentry2", "wcheck", "wbody", "wret"}
            => /\ fn[b] \in 1 .. 8
               /\ r[b] \in 0 .. n[b] - 1
               /\ part[b] \in 0 .. Parts(fn[b]) - 1
               /\ i[b] \in 0 .. NLeds - 1
               /\ PatternArgs(fn[b], part[b], i[b])[1] \in 0 .. 20
               /\ PatternArgs(fn[b], part[b], i[b])[2] \in 0 .. 20
               /\ PatternArgs(fn[b], part[b], i[b])[1] < LedKeep
               /\ PatternArgs(fn[b], part[b], i[b])[2] < LedKeep
               /\ fn[b] = 8 => {i[b], i[b] + 20, 19 - i[b], 39 - i[b]}
                                   \subseteq 0 .. Len(randomsequence) - 1

\* The last step of the last repeat of the random pattern is being shown:
\* setled(randomsequence[20], randomsequence[0]) = setled(10, 9).
C12_LastRandomStep ==
    /\ pc[1] = "wcheck"
    /\ fn[1] = 8 /\ r[1] = 3 /\ part[1] = 3 /\ i[1] = 19
    /\ PatternArgs(fn[1], part[1], i[1]) = <<10, 9>>
    /\ nsteps[1] = 1440

\* C13 (as claimed): in each of the four 20-step passes of a repeat of
\* twoledsrandom the left positions lit are pairwise distinct and so are the
\* right positions lit, so that at the end of a pass each side has lit every
\* position 0..19 once.
C13_RandomPassesDistinct ==
    \A b \in badges :
        (fn[b] = 8 /\ pc[b] \in {"wentry", "wentry2", "wcheck", "wbody", "wret"})
            => LET lefts  == {twoledsrandom(part[b], j)[1] : j \in 0 .. i[b]}
                   rights == {twoledsrandom(part[b], j)[2] : j \in 0 .. i[b]}
               IN  /\ Cardinality(lefts) = i[b] + 1
                   /\ Cardinality(rights) = i[b] + 1
                   /\ i[b] = NLeds - 1 => (lefts = 0 .. 19 /\ rights = 0 .. 19)

\* ------------------------------------------------ waituntil, any timing
\* One badge from setup() with the sync pin driven by its surroundings and
\* the clock free to tick between any two steps of the main context.
RxFall(b) ==
    /\ b \in badges /\ rx[b] = 1
    /\ rx' = Upd(rx, b, 0)
    /\ UNCHANGED <<badges, elapsedmillis, INTEN_T16, INTRQ_T16, ports, TM2C, globals,
                   pc, patvars, waitvars, millisvars, histvars>>

RxRise(b) ==
    /\ b \in badges /\ rx[b] = 0
    /\ rx' = Upd(rx, b, 1)
    /\ UNCHANGED <<badges, elapsedmillis, INTEN_T16, INTRQ_T16, ports, TM2C, globals,
                   pc, patvars, waitvars, millisvars, histvars>>

\* The clock runs ahead of the last reading the main context took of it by
\* at most MaxStall ticks.
PollTick(b) ==
    /\ b \in badges
    /\ ULess(USub(elapsedmillis[b], currenttime[b]), U32(MaxStall))
    /\ Tick(b)

\* Where the badge is when its surroundings start to act: fresh from
\* setup() or at the last step of pattern 8, with the clock followed for
\* MaxPollTicks ticks; or at one of the other checkpoints, with the clock
\* followed for MaxStepTicks ticks.
PollStarts == {0} \cup (Checkpoints \ {StepsThrough(8) - 2})

PollTicks(k) ==
    IF k \in {0, StepsThrough(8) - 1} THEN MaxPollTicks ELSE MaxStepTicks

PollInit ==
    \E k \in PollStarts :
        Starting({1}, [b \in {1} |-> k], "poll", [b \in {1} |-> PollTicks(k)])

PollNext == \E b \in BadgeIds : Program(b) \/ PollTick(b) \/ RxFall(b) \/ RxRise(b)

SpecPoll == PollInit /\ [][PollNext]_vars

\* C2: when waituntil() reports a sync detection inside a pattern, at any
\* repeat and any step index, the pattern function returns without another
\* setled() or waituntil() call (the next step of the badge is the return to
\* loop(), the port registers untouched), state is 0 when it returns, and
\* the next loop() call dispatches pattern 1 from its first step.
C2_SyncAbortsPattern ==
    [][\A b \in badges :
          /\ (pc[b] = "wret" /\ ret[b] = 1 /\ pc'[b] # pc[b])
                => /\ fn[b] \in 1 .. 8
                   /\ pc'[b] = "loop"
                   /\ state'[b] = 0
                   /\ ports'[b] = ports[b]
          /\ (pc[b] = "loop" /\ ret[b] = 1 /\ pc'[b] # pc[b])
                => /\ state[b] = 0
                   /\ pc'[b] = "step"
                   /\ state'[b] = 1
                   /\ fn'[b] = 1
                   /\ n'[b] = 4
                   /\ r'[b] = 0 /\ part'[b] = 0 /\ i'[b] = 0]_vars

\* Pattern 6 interrupted in its last step, and back in loop().
C2_AbortedInPatternSix ==
    /\ pc[1] = "loop"
    /\ ret[1] = 1
    /\ state[1] = 0
    /\ fn[1] = 6
    /\ r[1] = 7
    /\ i[1] = NLeds - 1

\* C3 (as claimed): waituntil(budget) returns 1 if and only if a LOW sample
\* followed by a HIGH sample was observed strictly before the clock reached
\* previoustime + budget; so it returns 0 when the pair is completed at or
\* after that instant, and when the pin is HIGH at entry and stays HIGH.
C3_EdgeStrictlyBeforeBudget ==
    \A b \in badges : pc[b] = "wret" => (ret[b] = 1 <=> wobs[b].edgein)

\* C3 (amended): waituntil(budget) returns 1 if and only if, in the sequence
\* made of previouspinstate as it stood at entry followed by the samples the
\* call takes, a LOW is immediately followed by a HIGH; the call samples
\* once at entry and then once per poll, each poll following a clock reading
\* strictly below previoustime + budget.
C3_EdgeRule ==
    \A b \in badges :
        /\ pc[b] = "wret" => (ret[b] = 1 <=> wobs[b].edgeany)
        /\ ~wobs[b].latepoll
        /\ (pc[b] = "wret" /\ ~wobs[b].polled /\ ret[b] = 1)
              => (wobs[b].entrypin = 0 /\ wobs[b].last = 1)

\* A call returns 1 on a HIGH sample taken in the loop body when the clock
\* had already reached previoustime + budget.
C3_LateEdgeDetected ==
    /\ pc[1] = "wret"
    /\ ret[1] = 1
    /\ wobs[1].polled
    /\ wobs[1].lateedge
    /\ ~wobs[1].edgein

\* C4: whenever waituntil(budget) returns 0, previoustime is its value at
\* entry plus exactly budget, whatever the clock read when the polling loop
\* ended; after k timeouts in a row it has advanced by exactly k * budget.
C4_TimeoutAdvancesByBudget ==
    \A b \in badges :
        /\ (pc[b] = "wret" /\ ret[b] = 0)
              => previoustime[b] = UAdd(wobs[b].entrypt, U32(time[b]))
        /\ previoustime[b] = UAdd(wobs[b].base, U32(wobs[b].tmo * 25))

\* The second timeout in a row, returned by a loop that ended late.
C4_LateSecondTimeout ==
    /\ pc[1] = "wret"
    /\ ret[1] = 0
    /\ wobs[1].tmo = 2
    /\ ULess(U32(time[1]), USub(currenttime[1], wobs[1].entrypt))
    /\ previoustime[1] = U32(50)

\* C14: whenever waituntil() returns 1, the two most recent samples of the
\* sync pin the badge has taken, the last sample of an earlier call and the
\* first of this one included, were LOW then HIGH in that order; and at
\* every waituntil() entry, previouspinstate = 0 implies that the most
\* recent sample taken was LOW.
C14_EdgeSoundAcrossCalls ==
    \A b \in badges :
        /\ (pc[b] = "wret" /\ ret[b] = 1)
              => (wobs[b].before = 0 /\ wobs[b].recent = 1)
        /\ (pc[b] \in {"wentry", "wentry2"} /\ previouspinstate[b] = 0)
              => wobs[b].recent = 0

\* A call returns 1 on its entry sample, without polling: the call before
\* it timed out on a LOW sample.
C14_EdgeAcrossTwoCalls ==
    /\ pc[1] = "wret"
    /\ ret[1] = 1
    /\ ~wobs[1].polled
    /\ wobs[1].entrypin = 0
    /\ wobs[1].before = 0
    /\ wobs[1].recent = 1
    /\ wobs[1].tmo = 0

\* C15: one detection per pulse.  After setup(), and after a waituntil()
\* call that returned 1, no later call returns 1 until the badge has taken
\* a LOW sample of the sync pin.
C15_OneShotPerPulse ==
    \A b \in badges :
        (pc[b] = "wret" /\ ret[b] = 1) => wobs[b].lows

\* A call returned 1 some time in the first 24 ms; the next call has seen
\* the pin HIGH in every sample and has timed out.
C15_HighAfterDetection ==
    /\ pc[1] = "wret"
    /\ ret[1] = 0
    /\ ULess(U32(0), wobs[1].base) /\ ULess(wobs[1].base, U32(25))
    /\ wobs[1].tmo = 1
    /\ wobs[1].polled
    /\ ~wobs[1].lows
    /\ wobs[1].recent = 1

\* C16: before the clock wraps, previoustime never decreases and never
\* exceeds the millisecond clock: each of its writers (the timeout branch
\* and the sync branch of waituntil(), and syncpulse()) gives it a value not
\* below its old value and not above elapsedmillis.
C16_BaselineMonotone ==
    [][\A b \in badges :
          /\ ULeq(previoustime[b], elapsedmillis[b])
          /\ ULeq(previoustime'[b], elapsedmillis'[b])
          /\ ULeq(previoustime[b], previoustime'[b])
          /\ previoustime'[b] # previoustime[b]
                => \/ pc[b] = "wcheck" /\ pc'[b] = "wret"
                   \/ pc[b] = "pulse" /\ pc'[b] = "pcheck"]_vars

\* The second timeout in a row has moved previoustime to 50 with the clock
\* at 52; and syncpulse() has moved it from 36000 to the 36001 it read.
C16_BaselineBehindClock ==
    \/ /\ pc[1] = "wret" /\ ret[1] = 0
       /\ previoustime[1] = U32(50)
       /\ elapsedmillis[1] = U32(52)
       /\ rx[1] = 0
    \/ /\ pc[1] = "pcheck"
       /\ previoustime[1] = U32(36001)
       /\ elapsedmillis[1] = U32(36003)
       /\ rx[1] = 0

\* C11: syncpulse(25) blocks for the full duration and leaves the
\* transmitter off.  The carrier is on exactly while the badge is inside
\* syncpulse() past line 295; syncpulse() returns only when the clock has
\* advanced 25 ms or more past the value read at entry (kept in
\* previoustime), and then the carrier is off and PA3 is low.
C11_PulseBlocksThenOff ==
    [][\A b \in badges :
          /\ (TM2C[b] = CarrierOn) <=> (pc[b] = "pcheck")
          /\ (TM2C'[b] = CarrierOn) <=> (pc'[b] = "pcheck")
          /\ TM2C[b] \in {0, CarrierOn}
          /\ (pc[b] = "pulse" /\ pc'[b] # pc[b])
                => /\ pc'[b] = "pcheck"
                   /\ time[b] = 25
                   /\ previoustime'[b] = elapsedmillis[b]
          /\ (pc[b] = "pcheck" /\ pc'[b] = "pcheck")
                => previoustime'[b] = previoustime[b]
          /\ (pc[b] = "pcheck" /\ pc'[b] # "pcheck")
                => /\ pc'[b] = "loop"
                   /\ ULeq(U32(25), USub(elapsedmillis[b], previoustime[b]))
                   /\ ULeq(U32(25), USub(currenttime[b], previoustime[b]))
                   /\ TM2C'[b] = 0
                   /\ Bit(ports'[b].PA, 3) = 0]_vars

\* syncpulse() has returned, two clock ticks late: the pulse started at
\* 36000 ms and the badge is back in loop() at 36027 ms, transmitter off.
C11_PulseReturnedLate ==
    /\ pc[1] = "loop"
    /\ state[1] = 0
    /\ fn[1] = 8
    /\ ret[1] = 0
    /\ TM2C[1] = 0
    /\ previoustime[1] = U32(36000)
    /\ currenttime[1] = U32(36026)
    /\ elapsedmillis[1] = U32(36027)

\* ------------------------------------- waituntil, any timing, fair
\* The badge fresh from setup() or at the last step of pattern 1, sync pin
\* free (stuck HIGH, stuck LOW or toggling between any two samples), the
\* clock followed for MaxFairTicks ticks: loop(), the pattern functions and
\* waituntil().  The main context keeps running, and the clock keeps
\* ticking while the tick budget lasts.
FairInit ==
    \E k \in {0, StepsThrough(1) - 1} :
        Starting({1}, [b \in {1} |-> k], "poll", [b \in {1} |-> MaxFairTicks])

\* The steps of loop(), of the pattern functions and of waituntil() other
\* than the setled() call
Playing(b) ==
    \/ LoopDispatch(b)
    \/ WaitEntryRead(b)
    \/ WaitEntrySample(b)
    \/ WaitLoopRead(b)
    \/ WaitLoopSample(b)
    \/ WaitReturn(b)
    \/ PatternNext(b)

\* The main context goes from the head of a step into waituntil(): the
\* step PatternSetled takes, seen from the program counter alone.
SetledCalled(b) ==
    /\ b \in badges /\ pc[b] = "step"
    /\ pc' = Upd(pc, b, "wentry")

FairNext ==
    \E b \in BadgeIds :
        Playing(b) \/ PatternSetled(b) \/ PollTick(b) \/ RxFall(b) \/ RxRise(b)

\* The main context always takes its next step, and the clock ticks.
SpecPollFair ==
    /\ FairInit
    /\ [][FairNext]_vars
    /\ WF_vars(Playing(1))
    /\ WF_pc(SetledCalled(1))
    /\ WF_vars(PollTick(1))

\* The running pattern function is in the last iteration of its loops
LastPosition(b) ==
    /\ r[b] = n[b] - 1
    /\ part[b] = Parts(fn[b]) - 1
    /\ i[b] = NLeds - 1

\* C18: bounded wait.  Whatever the sync pin does, no poll of waituntil()
\* starts on a clock reading that has reached previoustime + budget; and
\* with the clock ticking (a budget's worth of ticks still to come), every
\* waituntil() call returns and the pattern function in its last iteration
\* returns to loop().
C18_BoundedWait ==
    /\ [](~wobs[1].latepoll)
    /\ (pc[1] = "wentry" /\ ticksleft[1] >= StepTime) ~> (pc[1] = "wret")
    /\ (pc[1] = "step" /\ LastPosition(1) /\ ticksleft[1] >= StepTime)
          ~> (pc[1] = "loop")

\* A call has timed out with the pin LOW: LOW in its last samples, and the
\* pin is still LOW.
C18_TimedOutPinStuckLow ==
    /\ pc[1] = "wret"
    /\ ret[1] = 0
    /\ wobs[1].polled
    /\ ~wobs[1].edgeany
    /\ wobs[1].recent = 0 /\ wobs[1].before = 0
    /\ currentpinstate[1] = 0 /\ previouspinstate[1] = 0
    /\ rx[1] = 0
    /\ wobs[1].tmo = 1

\* ------------------------------------------- the full cycle, alone, fair
\* One badge alone from setup(), followed through two cycles.  The main
\* context always takes its next step.  The timer runs whatever the main
\* context does; the model lets the clock tick at the loop test of a
\* polling loop only, where a tick is possible again and again (strong
\* fairness).
Pulse(b) ==
    \/ PulseStart(b)
    \/ PulseRead(b)
    \/ PulseStop(b)

CycleInit ==
    Starting({1}, [b \in {1} |-> 0], "run", [b \in {1} |-> MaxCycleTicks])

SpecRunFair ==
    /\ CycleInit
    /\ [][RunNext]_vars
    /\ WF_vars(Playing(1))
    /\ WF_pc(SetledCalled(1))
    /\ WF_vars(Pulse(1))
    /\ SF_vars(RunTick(1))

\* C19: with the clock ticking and no sync edge detected, the badge
\* transmits a sync pulse again and again, one per complete pass through
\* the patterns 1..8; and it is in syncpulse() only when the patterns 1..8
\* have all been dispatched, in order, and played to their end (1440 steps)
\* since state was last 0.
C19_PulseEveryCycle ==
    /\ [](\A b \in badges :
            pc[b] \in {"pulse", "pcheck"}
                => /\ state[b] = 9
                   /\ Len(dispatched[b]) = 9 * (pulses[b] + 1)
                   /\ SubSeq(dispatched[b], Len(dispatched[b]) - 8, Len(dispatched[b]))
                        = <<1, 2, 3, 4, 5, 6, 7, 8, 9>>
                   /\ nsteps[b] = StepsThrough(8) * (pulses[b] + 1))
    /\ (pulses[1] = 0) ~> (pulses[1] = 1)
    /\ (pulses[1] = 1) ~> (pulses[1] = 2)

\* The second pulse has been transmitted, 2880 steps after setup().
C19_SecondPulseDone ==
    /\ pc[1] = "loop"
    /\ pulses[1] = 2
    /\ state[1] = 0
    /\ nsteps[1] = 2880
    /\ Len(dispatched[1]) = 18

\* ------------------------------------------------- the clock wraps
\* The badge at the last step of pattern 8, its cycle started by a sync
\* detection at such a time that the millisecond counters are d ms before
\* their wrap from 2^32 - 1 to 0, d in 1..MaxWrapLead: the counter
\* wraps inside the waituntil(25) of that step or inside the syncpulse(25)
\* that follows.  No other badge is in range; the clock is free to run up
\* to MaxStall ticks ahead of the last reading.
ClockShifted(st, off) ==
    [st EXCEPT !.elapsedmillis = UAdd(@, off),
               !.previoustime = UAdd(@, off),
               !.currenttime = UAdd(@, off)]

WrapInit ==
    \E d \in 1 .. MaxWrapLead :
        LET k  == StepsThrough(8) - 1
            st == ClockShifted(StateAt(k), USub(USub(UMax, U32(d - 1)),
                                                StateAt(k).elapsedmillis))
        IN  StartingIn({1}, [b \in {1} |-> st], [b \in {1} |-> k], "poll",
                       [b \in {1} |-> MaxPollTicks])

WrapNext == \E b \in BadgeIds : Program(b) \/ PollTick(b)

SpecWrap == WrapInit /\ [][WrapNext]_vars

\* C17: with w-bit counters (w = 32), a waituntil(25) or syncpulse(25) call
\* during which elapsedmillis wraps from 2^w - 1 to 0 ends at the first clock
\* reading for which (currenttime - previoustime) mod 2^w has reached 25:
\* not earlier, and the clock never gets further past previoustime + 25 than
\* the polling allows; and "previoustime += 25" wraps with the clock.
C17_WrapTolerated ==
    \A b \in badges :
        /\ ~wobs[b].latepoll
        /\ (pc[b] = "wret" /\ ret[b] = 0)
              => /\ USub(currenttime[b], wobs[b].entrypt)
                        \in {U32(x) : x \in time[b] .. time[b] + 2 * MaxStall - 1}
                 /\ USub(previoustime[b], wobs[b].entrypt) = U32(time[b])
        /\ (pc[b] = "loop" /\ state[b] = 0)
              => USub(currenttime[b], previoustime[b])
                     \in {U32(x) : x \in time[b] .. time[b] + MaxStall - 1}
        /\ pc[b] \in {"wcheck", "wbody", "pcheck"}
              => USub(elapsedmillis[b], previoustime[b])
                     \in {U32(x) : x \in 0 .. time[b] + 3 * MaxStall - 1}
        /\ ret[b] = 0

\* The counter has wrapped inside a waituntil(25) entered with previoustime
\* at 2^32 - 10 (both halves of elapsedmillis have wrapped): the call has
\* timed out on a reading of 15 or 16 and previoustime is 15.
C17_WrappedInsideWait ==
    /\ pc[1] = "wret"
    /\ ret[1] = 0
    /\ wobs[1].entrypt = <<Half - 1, Half - 10>>
    /\ wobs[1].polled
    /\ previoustime[1] = <<0, 15>>
    /\ currenttime[1] \in {<<0, 15>>, <<0, 16>>}
    /\ ULess(elapsedmillis[1], U32(20))

\* ------------------------------------------- millis() and the interrupt
\* One badge from setup(), its main context calling millis() again and again
\* (as the polling loops do), with T16 requests raised between any two of
\* its instructions until the clock has passed the first byte carry.
MillisInit ==
    Starting({1}, [b \in {1} |-> 0], "millis", [b \in {1} |-> MaxMillisTicks])

MillisNext ==
    \E b \in BadgeIds :
        \/ MillisDisable(b)
        \/ MillisReadByte(b)
        \/ MillisEnable(b)
        \/ MillisReturn(b)
        \/ T16Request(b)
        \/ Interrupt(b)

SpecMillis == MillisInit /\ [][MillisNext]_vars

\* C9: millis() never returns a torn value.  The value it returns is one
\* elapsedmillis held between the disable and the re-enable of INTEN_T16;
\* the counter does not change between the two; every T16 request raised is
\* either applied to the counter or still pending, and one raised while
\* masked has been applied when millis() returns.
C9_NoTornRead ==
    \A b \in badges :
        /\ mpc[b] = "ret" => Value(current[b]) \in mobs[b].held
        /\ mpc[b] = "read" => mobs[b].held = {elapsedmillis[b]}
        /\ U32(mobs[b].raised) = UAdd(elapsedmillis[b], U32(INTRQ_T16[b]))
        /\ (mpc[b] = "ret" /\ mobs[b].masked /\ ~Pending(b))
              => elapsedmillis[b] = UAdd(Value(current[b]), U32(1))

\* A request raised while masked, at the carry from 255 to 256, applied
\* after the re-enable: millis() returns 255 and the counter is at 256.
C9_TickWhileMasked ==
    /\ mpc[1] = "ret"
    /\ mobs[1].masked
    /\ Value(current[1]) = U32(255)
    /\ elapsedmillis[1] = U32(256)

\* ------------------------------------------------- setled, any arguments
\* One badge from setup(), setled() called up to MaxLedCalls times with any
\* argument 0..20 for one side and 20 or 21 for the other (setled(left,
\* right) does what setled(left, 21) and then setled(21, right) do), and PA
\* cleared as syncpulse() does: the pin states a call can find.  ticksleft
\* counts the calls left.
LedCall(b) ==
    /\ b \in badges
    /\ ticksleft[b] > 0
    /\ ticksleft' = Upd(ticksleft, b, ticksleft[b] - 1)
    /\ \E pos \in 0 .. NLeds, other \in {NLeds, LedKeep} :
          \/ ports' = Upd(ports, b, setled(ports[b], pos, other))
          \/ ports' = Upd(ports, b, setled(ports[b], other, pos))
    /\ UNCHANGED <<badges, elapsedmillis, INTEN_T16, INTRQ_T16, TM2C, rx, globals,
                   pc, patvars, waitvars, millisvars, mode, ledhist, dispatched,
                   pulses, wobs>>

\* PA=0; (line 303)
LedPortClear(b) ==
    /\ b \in badges
    /\ ports' = Upd(ports, b, [ports[b] EXCEPT !.PA = 0])
    /\ UNCHANGED <<badges, elapsedmillis, INTEN_T16, INTRQ_T16, TM2C, rx, globals,
                   pc, patvars, waitvars, millisvars, histvars>>

LedInit == Starting({1}, [b \in {1} |-> 0], "led", [b \in {1} |-> MaxLedCalls])

LedNext == \E b \in BadgeIds : LedCall(b) \/ LedPortClear(b)

SpecLed == LedInit /\ [][LedNext]_vars

\* The pins of a side that are outputs driven high, and driven low
DrivenHigh(p, pins) == {pin \in Outputs(p, pins) : Level(p, pin) = 1}

DrivenLow(p, pins) == {pin \in Outputs(p, pins) : Level(p, pin) = 0}

\* Registers q drive the plus pin of LED pos of a side high, its minus pin
\* low, and no other pin of that side or of the other side
OneLedOn(q, pos, pins, Plus(_), Minus(_), others) ==
    /\ Cardinality(Outputs(q, pins)) = 2
    /\ DrivenHigh(q, pins) = {pin \in pins : pos \in Plus(pin)}
    /\ DrivenLow(q, pins) = {pin \in pins : pos \in Minus(pin)}
    /\ Cardinality(DrivenHigh(q, pins)) = 1
    /\ Cardinality(DrivenLow(q, pins)) = 1
    /\ Outputs(q, others) = {}

\* C10: from any pin state, for every position pos in 0..19, after
\* setled(pos, 20) exactly two left pins are outputs, one driven high and one
\* driven low, the plus and the minus pin of LED L<pos> in the pin table, and
\* no right pin is an output; symmetrically for setled(20, pos); and the 20 positions of a side give 20 different
\* (high pins, low pins) pairs.
C10_OnePairPerPosition ==
    \A b \in badges :
        LET lefts == [pos \in 0 .. NLeds - 1 |-> setled(ports[b], pos, NLeds)]
            rights == [pos \in 0 .. NLeds - 1 |-> setled(ports[b], NLeds, pos)]
        IN  /\ \A pos \in 0 .. NLeds - 1 :
                  /\ OneLedOn(lefts[pos], pos, LeftPins, LeftPlus, LeftMinus, RightPins)
                  /\ OneLedOn(rights[pos], pos, RightPins, RightPlus, RightMinus, LeftPins)
            /\ Cardinality({<<DrivenHigh(lefts[pos], LeftPins), DrivenLow(lefts[pos], LeftPins)>> :
                               pos \in 0 .. NLeds - 1}) = NLeds
            /\ Cardinality({<<DrivenHigh(rights[pos], RightPins), DrivenLow(rights[pos], RightPins)>> :
                               pos \in 0 .. NLeds - 1}) = NLeds

\* setled(7, 20) has acted on registers in which other calls had left both
\* sides driven and data bits of other pins set: PB5 high, PB4 low, no other
\* left output, no right output.
C10_SevenAfterOthers ==
    /\ Outputs(ports[1], LeftPins) = {<<"B", 4>>, <<"B", 5>>}
    /\ Level(ports[1], <<"B", 5>>) = 1
    /\ Level(ports[1], <<"B", 4>>) = 0
    /\ Outputs(ports[1], RightPins) = {}
    /\ Level(ports[1], <<"B", 7>>) = 1
    /\ Level(ports[1], <<"B", 0>>) = 1
    /\ Lit(ports[1], LeftPins, LeftPlus, LeftMinus) = {7}

\* The bits of the four registers that belong to the pins of neither side
\* (PA1..PA6, with the IR LED pin PA3 and the sync input PA4), to the left
\* pins (PA7, PB4..PB7) and to the right pins (PA0, PB0..PB3)
OtherBits(p) == <<(p.PA \div 2) % 64, (p.PAC \div 2) % 64>>

LeftBits(p) == <<p.PA \div 128, p.PAC \div 128, p.PB \div 16, p.PBC \div 16>>

RightBits(p) == <<p.PA % 2, p.PAC % 2, p.PB % 16, p.PBC % 16>>

\* C20: the frame of setled(l, r), from any pin state.  An argument of 21
\* or more leaves every pin of its side unchanged, data and direction; the
\* left argument changes left pins only and the right argument right pins
\* only, so that a call does to each side what the call for that side alone
\* does; and no call changes the IR LED pin PA3 or the sync input PA4.
C20_SetledFrame ==
    \A b \in badges :
        LET p    == ports[b]
            keep == {LedKeep, LedKeep + 1, 127}
            args == {7, 16, NLeds, LedKeep}
        IN  /\ \A l \in (0 .. NLeds) \cup keep :
                  LET q == setled(p, l, LedKeep)
                  IN  /\ RightBits(q) = RightBits(p)
                      /\ OtherBits(q) = OtherBits(p)
                      /\ l \in keep => q = p
            /\ \A rr \in (0 .. NLeds) \cup keep :
                  LET q == setled(p, LedKeep, rr)
                  IN  /\ LeftBits(q) = LeftBits(p)
                      /\ OtherBits(q) = OtherBits(p)
                      /\ rr \in keep => q = p
            /\ \A l \in args, rr \in args :
                  LET q == setled(p, l, rr)
                  IN  /\ LeftBits(q) = LeftBits(setled(p, l, LedKeep))
                      /\ RightBits(q) = RightBits(setled(p, LedKeep, rr))
                      /\ OtherBits(q) = OtherBits(p)
                      /\ Bit(q.PA, 3) = Bit(p.PA, 3) /\ Bit(q.PAC, 3) = Bit(p.PAC, 3)
                      /\ Bit(q.PA, 4) = Bit(p.PA, 4) /\ Bit(q.PAC, 4) = Bit(p.PAC, 4)

\* setled(5, 21) has acted on registers in which setled(20, 12) had lit
\* R12: L05 is lit and R12 still is, PA3 is still an output.
C20_LeftSetRightKept ==
    /\ Lit(ports[1], LeftPins, LeftPlus, LeftMinus) = {5}
    /\ Lit(ports[1], RightPins, RightPlus, RightMinus) = {12}
    /\ Bit(ports[1].PAC, 3) = 1
    /\ ticksleft[1] = MaxLedCalls - 2

\* ------------------------------------------------ badges in IR range
\* NBadges badges in range of each other, each in the last or the last but
\* one step of pattern 8 of an undisturbed cycle.  Polling overhead is below
\* one clock tick, and the clocks run at nearly the same speed: none gets
\* more than MaxSkew ticks ahead of another.
BadgeTick(b) ==
    /\ b \in badges
    /\ Polled(b)
    /\ \A c \in badges : ticksleft[c] - (ticksleft[b] - 1) <= MaxSkew
    /\ Tick(b)

BadgesInit ==
    \E at \in [BadgeIds -> {StepsThrough(8) - 2, StepsThrough(8) - 1}] :
        Starting(BadgeIds, at, "air", [b \in BadgeIds |-> MaxAirTicks])

BadgesNext == \E b \in BadgeIds : Program(b) \/ BadgeTick(b)

SpecBadges == BadgesInit /\ [][BadgesNext]_vars

\* C5 (as claimed): the pulse of the badge that completes pattern 8 first is
\* detected by every other badge in range, which restarts at pattern 1:
\* once a badge has transmitted its pulse, no other badge has transmitted
\* one, is transmitting one, or is back in loop() with pattern 8 played to
\* its end.
C5_PulseResetsOthers ==
    \A a \in badges, b \in badges :
        (a # b /\ pulses[a] >= 1)
            => /\ pulses[b] = 0
               /\ pc[b] \notin {"pulse", "pcheck"}
               /\ ~(pc[b] = "loop" /\ state[b] = 8)

\* C6 (as claimed): no two badges in range of each other are inside
\* syncpulse(), their carriers on, at the same time.
C6_NoOverlappingPulses ==
    \A a \in badges, b \in badges :
        a # b => ~(TM2C[a] = CarrierOn /\ TM2C[b] = CarrierOn)

====
